---- MODULE Spec2Model ----
(***************************************************************************)
(* ServiceRTMPtoRTSP: the process-supervision core.                        *)
(*                                                                         *)
(*   StreamConverter (app/converter/stream_converter.py)  one child        *)
(*       process: start with bounded retry, the output-reading thread,     *)
(*       the health verdict, stop.                                         *)
(*   StreamManager (app/converter/manager/stream_manager.py)  the          *)
(*       name-keyed registry of converters.                                *)
(*   save_stream / delete_stream / get_all_streams (app/database/crud.py)  *)
(*       the persisted stream definitions.                                 *)
(*                                                                         *)
(* The specifications share the step actions:                              *)
(*   Spec      the registry as the application drives it: the handlers of  *)
(*             app/api/streams.py, app/web/routes.py and app/__init__.py   *)
(*             call the registry from one event loop, so registry calls    *)
(*             run one at a time while child processes, output threads     *)
(*             and the clock run concurrently;                             *)
(*   SpecConc  the registry called from several threads at once, nothing   *)
(*             registered;                                                 *)
(*   SpecReg   the same with one stream registered and running;            *)
(*   SpecSup   one StreamConverter driven directly (start with any         *)
(*             max_retries, stop, get_health_status, clear_error);         *)
(*   SpecCollect, SpecCollectFair  one StreamConverter, its child's        *)
(*             output and its output threads;                              *)
(*   SpecHealth  get_health_status as a function of the fields it reads;   *)
(*   SpecHealthConc  get_health_status statement by statement, called      *)
(*             while clear_error is.                                       *)
(***************************************************************************)
EXTENDS Integers, Sequences, FiniteSets, TLC

\* ------------------------------------------------------------------ bounds

\* StreamConverter objects that can be constructed and not yet dropped.
MaxConv == 2
\* Largest max_retries a direct start call is given in SpecSup.
MaxRetries == 3
\* Output threads of earlier attempts that may still run when a child is spawned.
MaxOld == 1
\* Registry calls in one run.
MaxCalls == 2
\* Clock steps (each one cache window long).
MaxWindows == 1
\* Clock steps one quiet period long (SpecSup).
MaxQuiet == 1
\* time.time() when the manager is constructed.
StartTime == 100

\* ------------------------------------------------------- program constants

\* start(self, max_retries: int = 3, ...)
DefaultMaxRetries == 3
\* current_time - self._last_health_check_time < 5
CacheWindow == 5
\* current_time - self.last_output_time > 30
StaleThreshold == 30

Threads == {"t1", "t2"}
\* The event-loop thread, which runs every handler of the application.
Main == "t1"
Names == {"s1", "s2"}
Hosts == {"localhost", "example.org"}
ConvIds == 1..MaxConv

None == "None"
\* No converter: the name is not a key of the map.
NoConv == 0
NoRec == [absent |-> TRUE]
\* The stream definitions callers submit (and earlier runs persisted).
Defs == {<<"rtmp://x", 8554>>, <<"rtmp://y", 8555>>}
StoreRecs == {[rtmp_url |-> d[1], rtsp_port |-> d[2]] : d \in Defs}

\* What one spawn attempt (open(log_file_path) + subprocess.Popen) can do.
SpawnOutcomes == {"ok", "FileNotFoundError", "PermissionError", "OSError", "Exception"}

\* str(e) of the AttributeError raised by self.process.stdout once stop() has
\* set self.process to None.
ErrNoProcess == "'NoneType' object has no attribute 'stdout'"

VARIABLES
    streams,     \* StreamManager.streams: name -> converter, None when absent
    store,       \* the streams table: name -> record, NoRec when absent
    conv,        \* the fields of each StreamConverter object
    child,       \* the child process a converter's handle refers to
    collectors,  \* the threads running _log_ffmpeg_output, per converter
    now,         \* time.time()
    loaded,      \* the startup handler has called load_streams_from_db
    pc,          \* each caller's position
    loc,         \* each caller's arguments, locals and result
    removed,     \* history: names remove_stream has deleted from the map
    calls,       \* history: how many registry calls have begun
    output       \* history: what the child of each converter has written

vars ==
    <<streams, store, conv, child, collectors, now, loaded, pc, loc, removed, calls,
      output>>

\* ------------------------------------------------------------- converters

\* StreamConverter.__init__: the fields of a fresh object.
NewConverter(rtmp_url, rtsp_port, stream_name) ==
    [ alloc |-> TRUE,
      stream_name |-> stream_name,
      rtmp_url |-> rtmp_url,
      rtsp_port |-> rtsp_port,
      process |-> None,
      log_thread |-> FALSE,
      stop_log_thread |-> FALSE,
      last_error |-> "",
      last_output_time |-> 0,
      last_health_check_time |-> 0,
      cached_health_status |-> [none |-> TRUE],
      log_buffer |-> "" ]

\* A converter id no object uses.
FreeConverter ==
    [ alloc |-> FALSE,
      stream_name |-> "",
      rtmp_url |-> "",
      rtsp_port |-> 0,
      process |-> None,
      log_thread |-> FALSE,
      stop_log_thread |-> FALSE,
      last_error |-> "",
      last_output_time |-> 0,
      last_health_check_time |-> 0,
      cached_health_status |-> [none |-> TRUE],
      log_buffer |-> "" ]

\* The lines ffmpeg writes.
Lines == {"frame=   25 fps= 25", "Error opening input"}

\* "error" in error_line or "fatal" in error_line, of the lowercased line
HasKeyword(line) == line = "Error opening input"

\* The child of this spawn has written nothing yet.  at: when it last wrote a
\* line, 0 if never; err: the last line with a keyword it wrote, "" if none.
Silent == [at |-> 0, err |-> ""]

\* cur: the thread of the latest attempt is inside the loop of
\* _log_ffmpeg_output; old: how many threads of earlier attempts still are.
NoCollectors == [cur |-> FALSE, old |-> 0]

\* Threads of converter c still inside the loop of _log_ffmpeg_output.
RunningCollectors(c) == collectors[c].old + (IF collectors[c].cur THEN 1 ELSE 0)

\* self.process.poll() is None
PollIsNone(c) == child[c] = "alive"

\* Thread.is_alive() of self.log_thread
LogThreadAlive(c) == conv[c].log_thread /\ collectors[c].cur

IdleLoc ==
    [ op |-> "", name |-> "", url |-> "", port |-> 0, host |-> "",
      cv |-> 0, max_retries |-> 0, attempt |-> 0, spawns |-> 0, transient |-> TRUE,
      sret |-> FALSE, todo |-> {}, items |-> {}, out |-> {}, count |-> 0,
      success |-> TRUE, file |-> "", time |-> 0, ret |-> "", val |-> <<>> ]

\* No caller is inside a registry or converter call.
Serial == \A t \in Threads : pc[t] = "idle"

\* The converter objects caller u holds in its locals.
HeldBy(u) ==
    IF pc[u] \in {"idle", "done"} THEN {}
    ELSE ({loc[u].cv} \cup {i[2] : i \in loc[u].items}) \ {0}

\* An object that the map and every caller have let go of and whose child is
\* not running can no longer be observed (an output thread it still has only
\* writes its fields): it is reclaimed.  t is the acting caller and held the
\* objects it still holds after its step.
Garbage(nstreams, nconv, nchild, ncol, t, held) ==
    { c \in ConvIds :
        /\ nconv[c].alloc
        /\ \A n \in Names : nstreams[n] # c
        /\ c \notin held
        /\ \A u \in Threads \ {t} : c \notin HeldBy(u)
        /\ nchild[c] # "alive" }

Commit(nstreams, nconv, nchild, ncol, t, held) ==
    LET D == Garbage(nstreams, nconv, nchild, ncol, t, held) IN
    /\ streams' = nstreams
    /\ conv' = [c \in ConvIds |-> IF c \in D THEN FreeConverter ELSE nconv[c]]
    /\ child' = [c \in ConvIds |-> IF c \in D THEN "none" ELSE nchild[c]]
    /\ collectors' = [c \in ConvIds |-> IF c \in D THEN NoCollectors ELSE ncol[c]]

\* ------------------------------------------------- environment: the child

\* The child process exits (on its own, or after a signal).
ChildExit(c) ==
    /\ child[c] = "alive"
    /\ Commit(streams, conv, [child EXCEPT ![c] = "exited"], collectors, "env", {})
    /\ UNCHANGED <<store, now, loaded, pc, loc, removed, calls, output>>

\* The child writes a line to its stdout or stderr.  Popen was given
\* stdout=log_file and stderr=log_file: the line goes to the log file, and the
\* converter object has no pipe to read it from, so no field changes.
ChildWrites(c, line) ==
    /\ child[c] = "alive"
    /\ output' = [output EXCEPT ![c] =
           [at |-> now, err |-> IF HasKeyword(line) THEN line ELSE @.err]]
    /\ UNCHANGED <<streams, store, conv, child, collectors, now, loaded, pc, loc,
                   removed, calls>>

\* --------------------------------------------- _log_ffmpeg_output (thread)

\* while not self.stop_log_thread and self.process and self.process.poll() is None
CollectorGoesOn(c) ==
    /\ ~conv[c].stop_log_thread
    /\ conv[c].process # None
    /\ PollIsNone(c)

\* subprocess.Popen is given stdout=log_file, stderr=log_file, so
\* self.process.stdout and self.process.stderr are None: the loop body reads
\* no line and only sleeps.  A turn of the loop therefore changes nothing
\* unless it ends the thread, and the thread's place inside the loop is not
\* kept.  w is "cur" for the thread of the latest attempt, "old" for a thread
\* of an earlier one.
ThreadEnds(c, w) ==
    IF w = "cur" THEN [collectors EXCEPT ![c].cur = FALSE]
    ELSE [collectors EXCEPT ![c].old = @ - 1]

ThreadRuns(c, w) == IF w = "cur" THEN collectors[c].cur ELSE collectors[c].old > 0

\* The loop test fails and the thread ends.
collector_exit(c, w) ==
    /\ ThreadRuns(c, w)
    /\ ~CollectorGoesOn(c)
    /\ Commit(streams, conv, child, ThreadEnds(c, w), "env", {})
    /\ UNCHANGED <<store, now, loaded, pc, loc, removed, calls, output>>

\* The thread passed the loop test before stop() set self.process to None:
\* self.process.stdout raises AttributeError, the handler records str(e) in
\* last_error and leaves the loop.
collector_raise(c, w) ==
    /\ ThreadRuns(c, w)
    /\ conv[c].process = None
    /\ Commit(streams,
              [conv EXCEPT ![c].last_error = ErrNoProcess, ![c].log_buffer = "text"],
              child, ThreadEnds(c, w), "env", {})
    /\ UNCHANGED <<store, now, loaded, pc, loc, removed, calls, output>>

\* ----------------------------------------------------------------- clock

\* A stretch of time just longer than the staleness threshold.
QuietPeriod == StaleThreshold + 1

tick_window ==
    /\ ((now - StartTime) % QuietPeriod) + CacheWindow <= MaxWindows * CacheWindow
    /\ now' = now + CacheWindow
    /\ UNCHANGED <<streams, store, conv, child, collectors, loaded, pc, loc, removed, calls, output>>

tick_quiet ==
    /\ (now - StartTime) \div QuietPeriod < MaxQuiet
    /\ now' = now + QuietPeriod
    /\ UNCHANGED <<streams, store, conv, child, collectors, loaded, pc, loc, removed,
                   calls, output>>

\* ------------------------------------------------- StreamConverter.start

\* Fault: start() without its already-running test.
NeverRunning(c) == FALSE

\* if self.process and self.process.poll() is None
AlreadyRunning(c) == conv[c].process # None /\ PollIsNone(c)

\* Fault: the loop bound off by one.
MoreAttemptsInclusive(a, max_retries) == a <= max_retries

\* for attempt in range(max_retries): the loop runs attempt number a
MoreAttempts(a, max_retries) == a < max_retries

\* Fault: PermissionError left to the handlers that retry.
IsFatalOnlyMissing(o) == o = "FileNotFoundError"

\* except FileNotFoundError / except PermissionError: return False
IsFatal(o) == o \in {"FileNotFoundError", "PermissionError"}

\* self.logger.<level>(...): the message reaches the object's log buffer
Logged(cs, c) == [cs EXCEPT ![c].log_buffer = "text"]

\* start() returns r to its caller; l is the caller's locals after the step
StartReturns(t, r, l) ==
    /\ pc' = [pc EXCEPT ![t] = "start_ret"]
    /\ loc' = [loc EXCEPT ![t] = [l EXCEPT !.sret = r]]

\* One attempt is over without a live child: the next attempt, or the final
\* "Failed to start converter after N attempts" and return False.
NextAttempt(t, l) ==
    LET a == l.attempt + 1 IN
    IF MoreAttempts(a, l.max_retries)
    THEN /\ pc' = [pc EXCEPT ![t] = "spawn"]
         /\ loc' = [loc EXCEPT ![t] = [l EXCEPT !.attempt = a]]
    ELSE /\ pc' = [pc EXCEPT ![t] = "start_ret"]
         /\ loc' = [loc EXCEPT ![t] = [l EXCEPT !.attempt = a, !.sret = FALSE]]

start_enter(t) ==
    /\ pc[t] = "start"
    /\ LET c == loc[t].cv IN
       /\ IF AlreadyRunning(c)
          THEN StartReturns(t, TRUE, loc[t])
          ELSE IF MoreAttempts(0, loc[t].max_retries)
               THEN /\ pc' = [pc EXCEPT ![t] = "spawn"]
                    /\ loc' = [loc EXCEPT ![t].attempt = 0]
               ELSE StartReturns(t, FALSE, loc[t])
       /\ conv' = IF AlreadyRunning(c) \/ ~MoreAttempts(0, loc[t].max_retries)
                  THEN Logged(conv, c) ELSE conv
    /\ UNCHANGED <<streams, store, child, collectors, now, loaded, removed, calls, output>>

\* Fault: a spawn forgets the error recorded before it.
SpawnedClean(cs, c) ==
    [Logged(cs, c) EXCEPT ![c].process = "Popen", ![c].stop_log_thread = FALSE,
                          ![c].log_thread = TRUE, ![c].last_error = ""]

\* self.process = subprocess.Popen(...); self.stop_log_thread = False;
\* self.log_thread = threading.Thread(...): the fields a spawn assigns
Spawned(cs, c) ==
    [Logged(cs, c) EXCEPT ![c].process = "Popen", ![c].stop_log_thread = FALSE,
                          ![c].log_thread = TRUE]

\* One spawn attempt: open the log file and subprocess.Popen, then the
\* output thread.  History: spawns counts the attempts of this call,
\* transient says that every one of them raised an error that is retried.
start_spawn(t, o) ==
    /\ pc[t] = "spawn"
    /\ o = "ok" => RunningCollectors(loc[t].cv) <= MaxOld
    /\ LET c == loc[t].cv
           l == [loc[t] EXCEPT !.spawns = @ + 1,
                               !.transient = @ /\ o \in {"OSError", "Exception"}]
       IN
       IF o = "ok"
       THEN /\ conv' = Spawned(conv, c)
            /\ child' = [child EXCEPT ![c] = "alive"]
            /\ output' = [output EXCEPT ![c] = Silent]
            /\ collectors' = [collectors EXCEPT
                   ![c].cur = TRUE,
                   ![c].old = @ + (IF collectors[c].cur THEN 1 ELSE 0)]
            /\ pc' = [pc EXCEPT ![t] = "grace"]
            /\ loc' = [loc EXCEPT ![t] = l]
       ELSE /\ conv' = Logged(conv, c)
            /\ UNCHANGED <<child, collectors, output>>
            /\ IF IsFatal(o)
               THEN StartReturns(t, FALSE, l)
               ELSE NextAttempt(t, l)
    /\ UNCHANGED <<streams, store, now, loaded, removed, calls>>

\* Fault: the attempt counts as a failure though the child runs.
SurvivedNever(c) == FALSE

\* Fault: the attempt counts as a success whatever became of the child.
SurvivedAlways(c) == TRUE

\* if self.process.poll() is None, after the time.sleep(2) of the attempt
Survived(c) == PollIsNone(c)

\* After time.sleep(2): if self.process.poll() is None the attempt succeeded.
start_grace(t) ==
    /\ pc[t] = "grace"
    /\ LET c == loc[t].cv IN
       /\ IF Survived(c)
          THEN StartReturns(t, TRUE, loc[t])
          ELSE NextAttempt(t, loc[t])
       /\ conv' = Logged(conv, c)
    /\ UNCHANGED <<streams, store, child, collectors, now, loaded, removed, calls, output>>

\* -------------------------------------------------- StreamConverter.stop

StopReturns(t, r) ==
    /\ pc' = [pc EXCEPT ![t] = "stop_ret"]
    /\ loc' = [loc EXCEPT ![t].sret = r]

\* Fault: stop() without its no-process test.
NoProcessNever(c) == FALSE

\* if not self.process
NoProcess(c) == conv[c].process = None

\* if not self.process: return True; else signal the output thread
stop_enter(t) ==
    /\ pc[t] = "stop"
    /\ LET c == loc[t].cv IN
       IF NoProcess(c)
       THEN /\ conv' = Logged(conv, c)
            /\ StopReturns(t, TRUE)
       ELSE /\ conv' = [Logged(conv, c) EXCEPT
                            ![c].stop_log_thread = IF LogThreadAlive(c) THEN TRUE ELSE @]
            /\ pc' = [pc EXCEPT ![t] = IF LogThreadAlive(c) THEN "join" ELSE "terminate"]
            /\ loc' = loc
    /\ UNCHANGED <<streams, store, child, collectors, now, loaded, removed, calls, output>>

\* self.log_thread.join(timeout=2); self.log_thread = None.  The join ends
\* when the thread has ended or when the two seconds are over.
stop_join(t) ==
    /\ pc[t] = "join"
    /\ conv' = [conv EXCEPT ![loc[t].cv].log_thread = FALSE]
    /\ pc' = [pc EXCEPT ![t] = "terminate"]
    /\ UNCHANGED <<streams, store, child, collectors, now, loaded, loc, removed, calls, output>>

\* self.process.terminate(); with self.process already None (another stop
\* has cleared it) the call raises and the handler returns False.
stop_terminate(t) ==
    /\ pc[t] = "terminate"
    /\ LET c == loc[t].cv IN
       IF conv[c].process = None
       THEN /\ conv' = Logged(conv, c)
            /\ StopReturns(t, FALSE)
       ELSE /\ pc' = [pc EXCEPT ![t] = "wait"]
            /\ UNCHANGED <<conv, loc>>
    /\ UNCHANGED <<streams, store, child, collectors, now, loaded, removed, calls, output>>

\* Fault: the handle is kept after the child is gone.
StopKeeps(cs, c) == Logged(cs, c)

\* The two statements that end a stop whose wait returned:
\* self.process = None; return True
StopClears(cs, c) == [Logged(cs, c) EXCEPT ![c].process = None]

\* Fault: the kill is sent whether or not the child has exited.
KillAlways(c) == TRUE

\* except subprocess.TimeoutExpired: the child is still running when the five
\* seconds of self.process.wait(timeout=5) are over
KillNeeded(c) == PollIsNone(c)

\* self.process.wait(timeout=5): the child has exited, or TimeoutExpired and
\* self.process.kill()
stop_wait(t) ==
    /\ pc[t] = "wait"
    /\ LET c == loc[t].cv IN
       IF conv[c].process = None
       THEN /\ conv' = Logged(conv, c)
            /\ StopReturns(t, FALSE)
       ELSE IF ~KillNeeded(c)
            THEN /\ conv' = StopClears(conv, c)
                 /\ StopReturns(t, TRUE)
            ELSE /\ conv' = Logged(conv, c)
                 /\ pc' = [pc EXCEPT ![t] = "wait_kill"]
                 /\ loc' = loc
    /\ UNCHANGED <<streams, store, child, collectors, now, loaded, removed, calls, output>>

\* self.process.wait(timeout=2) after the kill: TimeoutExpired raised here is
\* caught by the outer handler, which returns False and keeps self.process.
stop_wait_kill(t) ==
    /\ pc[t] = "wait_kill"
    /\ LET c == loc[t].cv IN
       IF conv[c].process # None /\ ~PollIsNone(c)
       THEN /\ conv' = StopClears(conv, c)
            /\ StopReturns(t, TRUE)
       ELSE /\ conv' = Logged(conv, c)
            /\ StopReturns(t, FALSE)
    /\ UNCHANGED <<streams, store, child, collectors, now, loaded, removed, calls, output>>

\* ------------------------------- get_health_status, clear_error (converter)

Verdict(status, reason, arg) == [status |-> status, reason |-> reason, arg |-> arg]

NotRunning == Verdict(FALSE, "FFmpeg process is not running", "")
ErrorVerdict(e) == Verdict(FALSE, "FFmpeg error: ", e)
NoOutput == Verdict(FALSE, "No output from FFmpeg for more than 30 seconds", "")
Healthy == Verdict(TRUE, "Stream is running normally", "")

\* Fault: only the handle is tested, not whether the child still runs.
RecomputeHandleOnly(cs, c, current_time) ==
    IF cs[c].process = None THEN NotRunning
    ELSE IF cs[c].last_error # "" THEN ErrorVerdict(cs[c].last_error)
    ELSE IF cs[c].last_output_time > 0
            /\ current_time - cs[c].last_output_time > StaleThreshold THEN NoOutput
    ELSE Healthy

\* Fault: the staleness test placed before the error test.
RecomputeStaleFirst(cs, c, current_time) ==
    IF cs[c].process = None \/ ~PollIsNone(c) THEN NotRunning
    ELSE IF cs[c].last_output_time > 0
            /\ current_time - cs[c].last_output_time > StaleThreshold THEN NoOutput
    ELSE IF cs[c].last_error # "" THEN ErrorVerdict(cs[c].last_error)
    ELSE Healthy

\* Fault: the staleness test without its last_output_time > 0.
RecomputeUnguarded(cs, c, current_time) ==
    IF cs[c].process = None \/ ~PollIsNone(c) THEN NotRunning
    ELSE IF cs[c].last_error # "" THEN ErrorVerdict(cs[c].last_error)
    ELSE IF current_time - cs[c].last_output_time > StaleThreshold THEN NoOutput
    ELSE Healthy

\* The verdict get_health_status computes when it does not answer from the cache.
Recompute(cs, c, current_time) ==
    IF cs[c].process = None \/ ~PollIsNone(c) THEN NotRunning
    ELSE IF cs[c].last_error # "" THEN ErrorVerdict(cs[c].last_error)
    ELSE IF cs[c].last_output_time > 0
            /\ current_time - cs[c].last_output_time > StaleThreshold THEN NoOutput
    ELSE Healthy

\* Fault: the window test off by one.
CacheHitInclusive(cs, c, current_time) ==
    /\ current_time - cs[c].last_health_check_time <= CacheWindow
    /\ cs[c].cached_health_status # [none |-> TRUE]

\* current_time - self._last_health_check_time < 5 and
\* self._cached_health_status is not None
CacheHit(cs, c, current_time) ==
    /\ current_time - cs[c].last_health_check_time < CacheWindow
    /\ cs[c].cached_health_status # [none |-> TRUE]

\* What get_health_status returns.
HealthOf(cs, c, current_time) ==
    IF CacheHit(cs, c, current_time)
    THEN cs[c].cached_health_status
    ELSE Recompute(cs, c, current_time)

\* Fault: a recomputation that finds the child gone drops the handle.
HealthCachedReaps(cs, c, current_time) ==
    IF CacheHit(cs, c, current_time)
    THEN cs
    ELSE [cs EXCEPT ![c].cached_health_status = Recompute(cs, c, current_time),
                    ![c].last_health_check_time = current_time,
                    ![c].process = IF PollIsNone(c) THEN @ ELSE None]

\* What get_health_status leaves in the object.
HealthCached(cs, c, current_time) ==
    IF CacheHit(cs, c, current_time)
    THEN cs
    ELSE [cs EXCEPT ![c].cached_health_status = Recompute(cs, c, current_time),
                    ![c].last_health_check_time = current_time]

\* Fault: the cached verdict survives.
clear_error_keeps_cache(cs, c) == [cs EXCEPT ![c].last_error = ""]

\* Fault: the time of the last recomputation is reset as well.
clear_error_resets_time(cs, c) ==
    [cs EXCEPT ![c].last_error = "", ![c].cached_health_status = [none |-> TRUE],
               ![c].last_health_check_time = 0]

\* StreamConverter.clear_error
clear_error(cs, c) ==
    [cs EXCEPT ![c].last_error = "", ![c].cached_health_status = [none |-> TRUE]]

\* ------------------------------------------------------- persisted store

\* Fault: an insert for a name that has a row replaces the row.
save_stream_replace(st, stream_name, rtmp_url, rtsp_port) ==
    [st EXCEPT ![stream_name] = [rtmp_url |-> rtmp_url, rtsp_port |-> rtsp_port]]

\* crud.save_stream: the unique stream_name makes a second insert fail with
\* IntegrityError, which is rolled back (the function returns False).
save_stream(st, stream_name, rtmp_url, rtsp_port) ==
    IF st[stream_name] = NoRec
    THEN [st EXCEPT ![stream_name] = [rtmp_url |-> rtmp_url, rtsp_port |-> rtsp_port]]
    ELSE st

\* Fault: the row is not deleted.
delete_nothing(st, stream_name) == st

\* crud.delete_stream
delete_stream(st, stream_name) == [st EXCEPT ![stream_name] = NoRec]

\* crud.get_all_streams: the rows as dictionaries
db_get_all_streams(st) ==
    { [stream_name |-> n, rtmp_url |-> st[n].rtmp_url, rtsp_port |-> st[n].rtsp_port] :
        n \in {m \in Names : st[m] # NoRec} }

\* ---------------------------------------------------------- StreamManager

\* Fault: the membership test never finds the name.
InMapNever(n) == FALSE

\* stream_name in self.streams
InMap(n) == streams[n] # NoConv

\* Fault: the result of converter.start() is not looked at.
StartIgnored(l) == TRUE

\* if converter.start():
StartSucceeded(l) == l.sret

\* Fault: the result of converter.stop() is not looked at.
StopIgnored(l) == TRUE

\* if converter.stop():
StopSucceeded(l) == l.sret

\* The smallest id no converter object uses.
FreshId == CHOOSE c \in ConvIds : ~conv[c].alloc /\ \A d \in ConvIds : ~conv[d].alloc => c <= d

CanConstruct == \E c \in ConvIds : ~conv[c].alloc

\* The call is over: the caller has the result next to what it asked for (the
\* operation, the name, add's definition, the host of a query) and, for
\* get_stream_logs, what reading the log file gave; the call's locals are gone.
Finish(l, ret, val) ==
    [IdleLoc EXCEPT !.op = l.op,
                    !.name = IF l.op \in {"list", "load", "stop_all"} THEN "" ELSE l.name,
                    !.url = IF l.op = "add" THEN l.url ELSE "",
                    !.port = IF l.op = "add" THEN l.port ELSE 0,
                    !.host = IF l.op \in {"get", "list"} THEN l.host ELSE "",
                    !.file = IF l.op = "logs" THEN l.file ELSE "",
                    !.ret = ret,
                    !.val = val]

\* Fault: the boolean result negated.
BoolNegated(b) == IF b THEN "False" ELSE "True"

\* return True / return False
Bool(b) == IF b THEN "True" ELSE "False"

\* What get_stream returns: the dictionary, or None for a name not in the map.
GetStreamRet(n) == IF InMap(n) THEN "Record" ELSE "None"

\* Fault: the URL names the default host, not the host of the query.
RtspUrlLocal(host, rtsp_port, stream_name) ==
    <<"rtsp://", "localhost", ":", rtsp_port, "/", stream_name>>

\* f"rtsp://{host}:{converter.rtsp_port}/{converter.stream_name}"
RtspUrl(host, rtsp_port, stream_name) ==
    <<"rtsp://", host, ":", rtsp_port, "/", stream_name>>

\* The dictionary get_stream and get_all_streams build for one converter.
StreamInfo(name, c, host, health_status, health_reason) ==
    [ name |-> name,
      rtmp_url |-> conv[c].rtmp_url,
      rtsp_url |-> RtspUrl(host, conv[c].rtsp_port, conv[c].stream_name),
      rtsp_port |-> conv[c].rtsp_port,
      logs_url |-> <<"/logs/", name>>,
      logs_file_url |-> <<"/static/logs/", name, ".log">>,
      status |-> health_status.status,
      status_reason |-> <<health_reason.reason, health_reason.arg>> ]

\* add_stream up to the call of converter.start()
add_stream(t, n, u, p) ==
    /\ pc[t] = "idle" /\ loaded
    /\ IF InMap(n)
       THEN /\ pc' = [pc EXCEPT ![t] = "done"]
            /\ loc' = [loc EXCEPT ![t] =
                   Finish([IdleLoc EXCEPT !.op = "add", !.name = n, !.url = u, !.port = p],
                          "False", <<>>)]
            /\ conv' = conv
       ELSE /\ CanConstruct
            /\ conv' = [conv EXCEPT ![FreshId] = NewConverter(u, p, n)]
            /\ pc' = [pc EXCEPT ![t] = "start"]
            /\ loc' = [loc EXCEPT ![t] =
                   [IdleLoc EXCEPT !.op = "add", !.name = n, !.url = u, !.port = p,
                                   !.cv = FreshId, !.max_retries = DefaultMaxRetries]]
    /\ UNCHANGED <<streams, store, child, collectors, now, loaded, removed, output>>

\* if converter.start(): self.streams[stream_name] = converter
add_stream_after_start(t) ==
    /\ pc[t] = "start_ret" /\ loc[t].op = "add"
    /\ IF StartSucceeded(loc[t])
       THEN /\ Commit([streams EXCEPT ![loc[t].name] = loc[t].cv], conv, child,
                      collectors, t, {loc[t].cv})
            /\ pc' = [pc EXCEPT ![t] = "add_save"]
            /\ loc' = loc
            /\ removed' = removed \ {loc[t].name}
       ELSE /\ Commit(streams, conv, child, collectors, t, {})
            /\ pc' = [pc EXCEPT ![t] = "done"]
            /\ loc' = [loc EXCEPT ![t] = Finish(loc[t], "False", <<>>)]
            /\ removed' = removed
    /\ UNCHANGED <<store, now, loaded, calls, output>>

\* save_stream(stream_name, rtmp_url, rtsp_port); return True
add_stream_save(t) ==
    /\ pc[t] = "add_save"
    /\ store' = save_stream(store, loc[t].name, loc[t].url, loc[t].port)
    /\ pc' = [pc EXCEPT ![t] = "done"]
    /\ loc' = [loc EXCEPT ![t] = Finish(loc[t], "True", <<>>)]
    /\ UNCHANGED <<streams, conv, child, collectors, now, loaded, removed, calls, output>>

\* remove_stream up to the call of converter.stop()
remove_stream(t, n) ==
    /\ pc[t] = "idle" /\ loaded
    /\ IF InMap(n)
       THEN /\ pc' = [pc EXCEPT ![t] = "stop"]
            /\ loc' = [loc EXCEPT ![t] =
                   [IdleLoc EXCEPT !.op = "remove", !.name = n, !.cv = streams[n]]]
       ELSE /\ pc' = [pc EXCEPT ![t] = "done"]
            /\ loc' = [loc EXCEPT ![t] =
                   Finish([IdleLoc EXCEPT !.op = "remove", !.name = n], "False", <<>>)]
    /\ UNCHANGED <<streams, store, conv, child, collectors, now, loaded, removed, output>>

\* if converter.stop(): del self.streams[stream_name]
remove_after_stop(t) ==
    /\ pc[t] = "stop_ret" /\ loc[t].op = "remove"
    /\ IF StopSucceeded(loc[t])
       THEN IF InMap(loc[t].name)
            THEN /\ Commit([streams EXCEPT ![loc[t].name] = NoConv], conv, child,
                           collectors, t, {})
                 /\ pc' = [pc EXCEPT ![t] = "remove_delete"]
                 /\ loc' = [loc EXCEPT ![t].cv = 0]
                 /\ removed' = removed \cup {loc[t].name}
            ELSE /\ Commit(streams, conv, child, collectors, t, {})
                 /\ pc' = [pc EXCEPT ![t] = "done"]
                 /\ loc' = [loc EXCEPT ![t] = Finish(loc[t], "KeyError", <<>>)]
                 /\ removed' = removed
       ELSE /\ pc' = [pc EXCEPT ![t] = "done"]
            /\ loc' = [loc EXCEPT ![t] = Finish(loc[t], "False", <<>>)]
            /\ UNCHANGED <<streams, conv, child, collectors, removed>>
    /\ UNCHANGED <<store, now, loaded, calls, output>>

\* delete_stream(stream_name); return True
remove_delete(t) ==
    /\ pc[t] = "remove_delete"
    /\ store' = delete_stream(store, loc[t].name)
    /\ pc' = [pc EXCEPT ![t] = "done"]
    /\ loc' = [loc EXCEPT ![t] = Finish(loc[t], "True", <<>>)]
    /\ UNCHANGED <<streams, conv, child, collectors, now, loaded, removed, calls, output>>

get_stream(t, n, h) ==
    /\ pc[t] = "idle" /\ loaded
    /\ pc' = [pc EXCEPT ![t] = "done"]
    /\ IF InMap(n)
       THEN LET c == streams[n]
                v == HealthOf(conv, c, now)
            IN /\ conv' = HealthCached(conv, c, now)
               /\ loc' = [loc EXCEPT ![t] =
                      Finish([IdleLoc EXCEPT !.op = "get", !.name = n, !.host = h],
                             GetStreamRet(n), StreamInfo(n, c, h, v, v))]
       ELSE /\ conv' = conv
            /\ loc' = [loc EXCEPT ![t] =
                   Finish([IdleLoc EXCEPT !.op = "get", !.name = n, !.host = h],
                          GetStreamRet(n), <<>>)]
    /\ UNCHANGED <<streams, store, child, collectors, now, loaded, removed, output>>

\* get_all_streams: the comprehension starts to iterate self.streams.items()
get_all_streams(t, h) ==
    /\ pc[t] = "idle" /\ loaded
    /\ LET keys == {n \in Names : InMap(n)} IN
       IF keys = {}
       THEN /\ pc' = [pc EXCEPT ![t] = "done"]
            /\ loc' = [loc EXCEPT ![t] =
                   Finish([IdleLoc EXCEPT !.op = "list", !.host = h], "List", {})]
       ELSE /\ pc' = [pc EXCEPT ![t] = "list_status"]
            /\ loc' = [loc EXCEPT ![t] =
                   [IdleLoc EXCEPT !.op = "list", !.host = h,
                                   !.items = {<<n, streams[n]>> : n \in keys},
                                   !.count = Cardinality(keys)]]
    /\ UNCHANGED <<streams, store, conv, child, collectors, now, loaded, removed, output>>

\* The next item: "status": converter.get_health_status()["status"].  A map
\* whose size changed since the iteration began makes the iterator raise
\* RuntimeError.
list_status(t) ==
    /\ pc[t] = "list_status"
    /\ IF Cardinality({n \in Names : InMap(n)}) # loc[t].count
       THEN /\ pc' = [pc EXCEPT ![t] = "done"]
            /\ loc' = [loc EXCEPT ![t] = Finish(loc[t], "RuntimeError", <<>>)]
            /\ Commit(streams, conv, child, collectors, t, {})
       ELSE \E i \in loc[t].items :
            /\ conv' = HealthCached(conv, i[2], now)
            /\ pc' = [pc EXCEPT ![t] = "list_reason"]
            /\ loc' = [loc EXCEPT ![t].name = i[1], ![t].cv = i[2],
                                  ![t].items = @ \ {i},
                                  ![t].val = HealthOf(conv, i[2], now)]
            /\ UNCHANGED <<streams, child, collectors>>
    /\ UNCHANGED <<store, now, loaded, removed, calls, output>>

\* "status_reason": converter.get_health_status()["reason"], a second call
list_reason(t) ==
    /\ pc[t] = "list_reason"
    /\ LET c == loc[t].cv
           info == StreamInfo(loc[t].name, c, loc[t].host, loc[t].val,
                              HealthOf(conv, c, now))
           out == loc[t].out \cup {info}
       IN
       IF loc[t].items = {}
       THEN /\ pc' = [pc EXCEPT ![t] = "done"]
            /\ loc' = [loc EXCEPT ![t] = Finish([loc[t] EXCEPT !.out = {}], "List", out)]
            /\ Commit(streams, HealthCached(conv, c, now), child, collectors, t, {})
       ELSE /\ pc' = [pc EXCEPT ![t] = "list_status"]
            /\ loc' = [loc EXCEPT ![t].out = out, ![t].cv = 0, ![t].val = <<>>]
            /\ Commit(streams, HealthCached(conv, c, now), child, collectors, t,
                      {i[2] : i \in loc[t].items})
    /\ UNCHANGED <<store, now, loaded, removed, calls, output>>

clear_stream_error(t, n) ==
    /\ pc[t] = "idle" /\ loaded
    /\ pc' = [pc EXCEPT ![t] = "done"]
    /\ conv' = IF InMap(n) THEN clear_error(conv, streams[n]) ELSE conv
    /\ loc' = [loc EXCEPT ![t] =
           Finish([IdleLoc EXCEPT !.op = "clear_error", !.name = n], Bool(InMap(n)), <<>>)]
    /\ UNCHANGED <<streams, store, child, collectors, now, loaded, removed, output>>

RECURSIVE ClearAll(_, _)
ClearAll(cs, S) ==
    IF S = {} THEN cs
    ELSE LET c == CHOOSE x \in S : TRUE IN ClearAll(clear_error(cs, c), S \ {c})

clear_all_errors(t) ==
    /\ pc[t] = "idle" /\ loaded
    /\ pc' = [pc EXCEPT ![t] = "done"]
    /\ conv' = ClearAll(conv, {streams[n] : n \in {m \in Names : InMap(m)}})
    /\ loc' = [loc EXCEPT ![t] =
           Finish([IdleLoc EXCEPT !.op = "clear_all"], "None", <<>>)]
    /\ UNCHANGED <<streams, store, child, collectors, now, loaded, removed, output>>

\* get_stream_logs: the buffer, and the log file only when the buffer is
\* empty; f is what reading the file gives.
get_stream_logs(t, n, f) ==
    /\ pc[t] = "idle" /\ loaded
    /\ f \in {"file", "Error reading logs: "}
    /\ pc' = [pc EXCEPT ![t] = "done"]
    /\ loc' = [loc EXCEPT ![t] =
           Finish([IdleLoc EXCEPT !.op = "logs", !.name = n, !.file = f],
                  IF InMap(n) THEN "Text" ELSE "None",
                  IF ~InMap(n) THEN <<>>
                  ELSE IF conv[streams[n]].log_buffer # "" THEN <<"buffer">>
                  ELSE <<f>>)]
    /\ UNCHANGED <<streams, store, conv, child, collectors, now, loaded, removed, output>>

\* load_streams_from_db: streams = db_get_all_streams()
load_streams_from_db(t) ==
    /\ pc[t] = "idle"
    /\ loaded' = TRUE
    /\ pc' = [pc EXCEPT ![t] = "load_next"]
    /\ loc' = [loc EXCEPT ![t] =
           [IdleLoc EXCEPT !.op = "load", !.todo = db_get_all_streams(store)]]
    /\ UNCHANGED <<streams, store, conv, child, collectors, now, removed, output>>

\* One turn of the loop over the rows, up to converter.start(); return count
\* when the rows are used up.
load_next(t) ==
    /\ pc[t] = "load_next"
    /\ IF loc[t].todo = {}
       THEN /\ pc' = [pc EXCEPT ![t] = "done"]
            /\ loc' = [loc EXCEPT ![t] = Finish(loc[t], "Count", loc[t].count)]
            /\ conv' = conv
       ELSE \E e \in loc[t].todo :
            IF InMap(e.stream_name)
            THEN /\ loc' = [loc EXCEPT ![t].todo = @ \ {e}]
                 /\ UNCHANGED <<pc, conv>>
            ELSE /\ CanConstruct
                 /\ conv' = [conv EXCEPT ![FreshId] =
                        NewConverter(e.rtmp_url, e.rtsp_port, e.stream_name)]
                 /\ pc' = [pc EXCEPT ![t] = "start"]
                 /\ loc' = [loc EXCEPT ![t].todo = @ \ {e},
                                       ![t].name = e.stream_name,
                                       ![t].url = e.rtmp_url,
                                       ![t].port = e.rtsp_port,
                                       ![t].cv = FreshId,
                                       ![t].max_retries = DefaultMaxRetries]
    /\ UNCHANGED <<streams, store, child, collectors, now, loaded, removed, calls, output>>

\* Fault: a started stream is not counted.
CountSame(k) == k

\* count += 1
CountUp(k) == k + 1

\* if converter.start(): self.streams[stream_name] = converter; count += 1
load_after_start(t) ==
    /\ pc[t] = "start_ret" /\ loc[t].op = "load"
    /\ IF StartSucceeded(loc[t])
       THEN /\ Commit([streams EXCEPT ![loc[t].name] = loc[t].cv], conv, child,
                      collectors, t, {})
            /\ loc' = [loc EXCEPT ![t].count = CountUp(@), ![t].cv = 0]
            /\ removed' = removed \ {loc[t].name}
       ELSE /\ Commit(streams, conv, child, collectors, t, {})
            /\ loc' = [loc EXCEPT ![t].cv = 0]
            /\ removed' = removed
    /\ pc' = [pc EXCEPT ![t] = "load_next"]
    /\ UNCHANGED <<store, now, loaded, calls, output>>

\* stop_all_streams: list(self.streams.items())
stop_all_streams(t) ==
    /\ pc[t] = "idle" /\ loaded
    /\ pc' = [pc EXCEPT ![t] = "stop_all_next"]
    /\ loc' = [loc EXCEPT ![t] =
           [IdleLoc EXCEPT !.op = "stop_all",
                           !.items = {<<n, streams[n]>> : n \in {m \in Names : InMap(m)}}]]
    /\ UNCHANGED <<streams, store, conv, child, collectors, now, loaded, removed, output>>

\* The next converter.stop(), or self.streams.clear(); return success
stop_all_next(t) ==
    /\ pc[t] = "stop_all_next"
    /\ IF loc[t].items = {}
       THEN /\ Commit([n \in Names |-> NoConv], conv, child, collectors, t, {})
            /\ pc' = [pc EXCEPT ![t] = "done"]
            /\ loc' = [loc EXCEPT ![t] = Finish(loc[t], Bool(loc[t].success), <<>>)]
       ELSE \E i \in loc[t].items :
            /\ pc' = [pc EXCEPT ![t] = "stop"]
            /\ loc' = [loc EXCEPT ![t].items = @ \ {i}, ![t].name = i[1], ![t].cv = i[2]]
            /\ UNCHANGED <<streams, conv, child, collectors>>
    /\ UNCHANGED <<store, now, loaded, removed, calls, output>>

\* Fault: only the last stop decides the result.
AllStoppedLast(success, ok) == ok

\* success stays True only while every converter.stop() returned True.
AllStopped(success, ok) == success /\ ok

\* if not converter.stop(): success = False
stop_all_after_stop(t) ==
    /\ pc[t] = "stop_ret" /\ loc[t].op = "stop_all"
    /\ pc' = [pc EXCEPT ![t] = "stop_all_next"]
    /\ loc' = [loc EXCEPT ![t].success = AllStopped(@, loc[t].sret), ![t].cv = 0]
    /\ Commit(streams, conv, child, collectors, t, {i[2] : i \in loc[t].items})
    /\ UNCHANGED <<store, now, loaded, removed, calls, output>>

\* The caller takes the result; it is free for its next call.
Return(t) ==
    /\ pc[t] = "done"
    /\ pc' = [pc EXCEPT ![t] = "idle"]
    /\ loc' = [loc EXCEPT ![t] = IdleLoc]
    /\ UNCHANGED <<streams, store, conv, child, collectors, now, loaded, removed, calls, output>>

\* ------------------------------------ direct calls on one StreamConverter

\* The converter SpecSup drives.
Sup == 1

\* converter.start(max_retries=m)
sup_start(t, m) ==
    /\ pc[t] = "idle"
    /\ pc' = [pc EXCEPT ![t] = "start"]
    /\ loc' = [loc EXCEPT ![t] =
           [IdleLoc EXCEPT !.op = "start", !.name = conv[Sup].stream_name,
                           !.cv = Sup, !.max_retries = m]]
    /\ UNCHANGED <<streams, store, conv, child, collectors, now, loaded, removed, output>>

\* converter.stop()
sup_stop(t) ==
    /\ pc[t] = "idle"
    /\ pc' = [pc EXCEPT ![t] = "stop"]
    /\ loc' = [loc EXCEPT ![t] =
           [IdleLoc EXCEPT !.op = "stop", !.name = conv[Sup].stream_name, !.cv = Sup]]
    /\ UNCHANGED <<streams, store, conv, child, collectors, now, loaded, removed, output>>

\* start() or stop() hands its result to the direct caller
sup_return(t) ==
    /\ pc[t] \in {"start_ret", "stop_ret"} /\ loc[t].op \in {"start", "stop"}
    /\ pc' = [pc EXCEPT ![t] = "done"]
    /\ loc' = [loc EXCEPT ![t] = Finish(loc[t], Bool(loc[t].sret), <<>>)]
    /\ UNCHANGED <<streams, store, conv, child, collectors, now, loaded, removed, calls, output>>

\* converter.get_health_status()
sup_health(t) ==
    /\ pc[t] = "idle"
    /\ pc' = [pc EXCEPT ![t] = "done"]
    /\ conv' = HealthCached(conv, Sup, now)
    /\ loc' = [loc EXCEPT ![t] =
           Finish([IdleLoc EXCEPT !.op = "health", !.name = conv[Sup].stream_name],
                  "Verdict", HealthOf(conv, Sup, now))]
    /\ UNCHANGED <<streams, store, child, collectors, now, loaded, removed, output>>

\* converter.clear_error()
sup_clear_error(t) ==
    /\ pc[t] = "idle"
    /\ pc' = [pc EXCEPT ![t] = "done"]
    /\ conv' = clear_error(conv, Sup)
    /\ loc' = [loc EXCEPT ![t] =
           Finish([IdleLoc EXCEPT !.op = "clear", !.name = conv[Sup].stream_name],
                  "None", <<>>)]
    /\ UNCHANGED <<streams, store, child, collectors, now, loaded, removed, output>>

\* converter.get_health_status() statement by statement, for callers that run
\* while other threads write the fields it reads.
\* current_time = time.time()
health_begin(t) ==
    /\ pc[t] = "idle"
    /\ pc' = [pc EXCEPT ![t] = "health_cache"]
    /\ loc' = [loc EXCEPT ![t] =
           [IdleLoc EXCEPT !.op = "health", !.name = conv[Sup].stream_name,
                           !.cv = Sup, !.time = now]]
    /\ UNCHANGED <<streams, store, conv, child, collectors, now, loaded, removed, output>>

\* if current_time - self._last_health_check_time < 5 and
\* self._cached_health_status is not None: return self._cached_health_status
health_cache(t) ==
    /\ pc[t] = "health_cache"
    /\ IF CacheHit(conv, loc[t].cv, loc[t].time)
       THEN /\ pc' = [pc EXCEPT ![t] = "done"]
            /\ loc' = [loc EXCEPT ![t] =
                   Finish(loc[t], "Verdict", conv[loc[t].cv].cached_health_status)]
       ELSE /\ pc' = [pc EXCEPT ![t] = "health_poll"]
            /\ loc' = loc
    /\ UNCHANGED <<streams, store, conv, child, collectors, now, loaded, removed, calls, output>>

\* if not self.process or self.process.poll() is not None
health_poll(t) ==
    /\ pc[t] = "health_poll"
    /\ IF conv[loc[t].cv].process = None \/ ~PollIsNone(loc[t].cv)
       THEN /\ pc' = [pc EXCEPT ![t] = "health_store"]
            /\ loc' = [loc EXCEPT ![t].val = NotRunning]
       ELSE /\ pc' = [pc EXCEPT ![t] = "health_error"]
            /\ loc' = loc
    /\ UNCHANGED <<streams, store, conv, child, collectors, now, loaded, removed, calls, output>>

\* if self.last_error
health_error(t) ==
    /\ pc[t] = "health_error"
    /\ pc' = [pc EXCEPT ![t] = IF conv[loc[t].cv].last_error # ""
                               THEN "health_error_text" ELSE "health_stale"]
    /\ UNCHANGED <<streams, store, conv, child, collectors, now, loaded, loc, removed, calls, output>>

\* "reason": f"FFmpeg error: {self.last_error}", a second read of the field
health_error_text(t) ==
    /\ pc[t] = "health_error_text"
    /\ pc' = [pc EXCEPT ![t] = "health_store"]
    /\ loc' = [loc EXCEPT ![t].val = ErrorVerdict(conv[loc[t].cv].last_error)]
    /\ UNCHANGED <<streams, store, conv, child, collectors, now, loaded, removed, calls, output>>

\* if self.last_output_time > 0 and current_time - self.last_output_time > 30
health_stale(t) ==
    /\ pc[t] = "health_stale"
    /\ pc' = [pc EXCEPT ![t] = "health_store"]
    /\ loc' = [loc EXCEPT ![t].val =
           IF /\ conv[loc[t].cv].last_output_time > 0
              /\ loc[t].time - conv[loc[t].cv].last_output_time > StaleThreshold
           THEN NoOutput ELSE Healthy]
    /\ UNCHANGED <<streams, store, conv, child, collectors, now, loaded, removed, calls, output>>

\* self._cached_health_status = status;
\* self._last_health_check_time = current_time; return status
health_store(t) ==
    /\ pc[t] = "health_store"
    /\ conv' = [conv EXCEPT ![loc[t].cv].cached_health_status = loc[t].val,
                            ![loc[t].cv].last_health_check_time = loc[t].time]
    /\ pc' = [pc EXCEPT ![t] = "done"]
    /\ loc' = [loc EXCEPT ![t] = Finish(loc[t], "Verdict", loc[t].val)]
    /\ UNCHANGED <<streams, store, child, collectors, now, loaded, removed, calls, output>>

HealthStep(t) ==
    \/ health_cache(t)
    \/ health_poll(t)
    \/ health_error(t)
    \/ health_error_text(t)
    \/ health_stale(t)
    \/ health_store(t)

\* ------------------------------------------------------- specifications

\* The application has constructed its StreamManager; the streams table holds
\* whatever earlier runs left in it.
Init ==
    /\ streams = [n \in Names |-> NoConv]
    /\ store \in [Names -> StoreRecs \cup {NoRec}]
    /\ conv = [c \in ConvIds |-> FreeConverter]
    /\ child = [c \in ConvIds |-> "none"]
    /\ collectors = [c \in ConvIds |-> NoCollectors]
    /\ now = StartTime
    /\ loaded = FALSE
    /\ pc = [t \in Threads |-> "idle"]
    /\ loc = [t \in Threads |-> IdleLoc]
    /\ removed = {}
    /\ calls = 0
    /\ output = [c \in ConvIds |-> Silent]

\* A request handler calls the registry.
RegistryCall(t) ==
    \/ \E n \in Names, d \in Defs : add_stream(t, n, d[1], d[2])
    \/ \E n \in Names : remove_stream(t, n)
    \/ \E n \in Names, h \in Hosts : get_stream(t, n, h)
    \/ \E h \in Hosts : get_all_streams(t, h)
    \/ \E n \in Names : clear_stream_error(t, n)
    \/ clear_all_errors(t)
    \/ \E n \in Names, f \in {"file", "Error reading logs: "} : get_stream_logs(t, n, f)
    \/ stop_all_streams(t)

\* The application's startup handler loads the stored streams; every other
\* call is a request.
Call(t) ==
    /\ calls < MaxCalls
    /\ calls' = calls + 1
    /\ load_streams_from_db(t) \/ RegistryCall(t)

Request(t) ==
    /\ calls < MaxCalls
    /\ calls' = calls + 1
    /\ RegistryCall(t)

\* A call in progress takes its next step.
StartStep(t) ==
    \/ start_enter(t)
    \/ \E o \in SpawnOutcomes : start_spawn(t, o)
    \/ start_grace(t)

StopStep(t) ==
    \/ stop_enter(t)
    \/ stop_join(t)
    \/ stop_terminate(t)
    \/ stop_wait(t)
    \/ stop_wait_kill(t)

RequestStep(t) ==
    \/ StartStep(t)
    \/ StopStep(t)
    \/ add_stream_after_start(t)
    \/ add_stream_save(t)
    \/ remove_after_stop(t)
    \/ remove_delete(t)
    \/ list_status(t)
    \/ list_reason(t)
    \/ stop_all_next(t)
    \/ stop_all_after_stop(t)
    \/ Return(t)

Step(t) ==
    \/ RequestStep(t)
    \/ load_next(t)
    \/ load_after_start(t)

\* Child processes and output threads.
Background ==
    \/ \E c \in ConvIds : ChildExit(c)
    \/ \E c \in ConvIds, w \in {"cur", "old"} : collector_exit(c, w)
    \/ \E c \in ConvIds, w \in {"cur", "old"} : collector_raise(c, w)

Next ==
    \/ Serial /\ Call(Main)
    \/ \E t \in Threads : Step(t)
    \/ Background
    \/ tick_window

Spec == Init /\ [][Next]_vars

\* Requests served by two threads at once, on a fresh installation whose
\* startup has finished: nothing stored, nothing registered.
ConcInit ==
    /\ streams = [n \in Names |-> NoConv]
    /\ store = [n \in Names |-> NoRec]
    /\ conv = [c \in ConvIds |-> FreeConverter]
    /\ child = [c \in ConvIds |-> "none"]
    /\ collectors = [c \in ConvIds |-> NoCollectors]
    /\ now = StartTime
    /\ loaded = TRUE
    /\ pc = [t \in Threads |-> "idle"]
    /\ loc = [t \in Threads |-> IdleLoc]
    /\ removed = {}
    /\ calls = 0
    /\ output = [c \in ConvIds |-> Silent]

NextConc ==
    \/ \E t \in Threads : Request(t)
    \/ \E t \in Threads : RequestStep(t)
    \/ Background
    \/ tick_window

SpecConc == ConcInit /\ [][NextConc]_vars

\* One converter, constructed and not yet started.
SupInit ==
    /\ streams = [n \in Names |-> IF n = "s1" THEN Sup ELSE NoConv]
    /\ store = [n \in Names |-> NoRec]
    /\ conv = [c \in ConvIds |->
                  IF c = Sup THEN NewConverter("rtmp://x", 8554, "s1") ELSE FreeConverter]
    /\ child = [c \in ConvIds |-> "none"]
    /\ collectors = [c \in ConvIds |-> NoCollectors]
    /\ now = StartTime
    /\ loaded = TRUE
    /\ pc = [t \in Threads |-> "idle"]
    /\ loc = [t \in Threads |-> IdleLoc]
    /\ removed = {}
    /\ calls = 0
    /\ output = [c \in ConvIds |-> Silent]

DirectCall(t) ==
    \/ \E m \in 0..MaxRetries : sup_start(t, m)
    \/ sup_stop(t)
    \/ sup_health(t)
    \/ sup_clear_error(t)

SupCall(t) == calls' = calls /\ DirectCall(t)

NextSup ==
    \/ Serial /\ SupCall(Main)
    \/ \E t \in Threads : StartStep(t) \/ StopStep(t) \/ sup_return(t) \/ Return(t)
    \/ Background
    \/ \E c \in ConvIds, line \in Lines : ChildWrites(c, line)
    \/ tick_window
    \/ tick_quiet

SpecSup == SupInit /\ [][NextSup]_vars

\* Requests served by two threads at once while one stream is registered:
\* add_stream("rtmp://x", 8554, "s1") has returned True, the child runs and
\* its output thread is in its loop.
RunningConverter(rtmp_url, rtsp_port, stream_name) ==
    [NewConverter(rtmp_url, rtsp_port, stream_name) EXCEPT
         !.process = "Popen", !.log_thread = TRUE, !.log_buffer = "text"]

RegInit ==
    /\ streams = [n \in Names |-> IF n = "s1" THEN Sup ELSE NoConv]
    /\ store = [n \in Names |->
                   IF n = "s1" THEN [rtmp_url |-> "rtmp://x", rtsp_port |-> 8554]
                   ELSE NoRec]
    /\ conv = [c \in ConvIds |->
                  IF c = Sup THEN RunningConverter("rtmp://x", 8554, "s1")
                  ELSE FreeConverter]
    /\ child = [c \in ConvIds |-> IF c = Sup THEN "alive" ELSE "none"]
    /\ collectors = [c \in ConvIds |->
                        IF c = Sup THEN [cur |-> TRUE, old |-> 0] ELSE NoCollectors]
    /\ now = StartTime
    /\ loaded = TRUE
    /\ pc = [t \in Threads |-> "idle"]
    /\ loc = [t \in Threads |-> IdleLoc]
    /\ removed = {}
    /\ calls = 0
    /\ output = [c \in ConvIds |-> Silent]

SpecReg == RegInit /\ [][NextConc]_vars

\* get_health_status and clear_error called on one running converter from two
\* threads at once.  The converter was stopped and started again; during the
\* stop its output thread may have recorded the AttributeError (start does
\* not reset last_error).
HealthConcInit ==
    \E e \in {"", ErrNoProcess} :
        /\ streams = [n \in Names |-> IF n = "s1" THEN Sup ELSE NoConv]
        /\ store = [n \in Names |-> NoRec]
        /\ conv = [c \in ConvIds |->
                      IF c = Sup
                      THEN [RunningConverter("rtmp://x", 8554, "s1") EXCEPT !.last_error = e]
                      ELSE FreeConverter]
        /\ child = [c \in ConvIds |-> IF c = Sup THEN "alive" ELSE "none"]
        /\ collectors = [c \in ConvIds |->
                            IF c = Sup THEN [cur |-> TRUE, old |-> 0] ELSE NoCollectors]
        /\ now = StartTime
        /\ loaded = TRUE
        /\ pc = [t \in Threads |-> "idle"]
        /\ loc = [t \in Threads |-> IdleLoc]
        /\ removed = {}
        /\ calls = 0
        /\ output = [c \in ConvIds |-> Silent]

HealthConcCall(t) == calls' = calls /\ (health_begin(t) \/ sup_clear_error(t))

NextHealthConc ==
    \/ \E t \in Threads : HealthConcCall(t)
    \/ \E t \in Threads : HealthStep(t) \/ Return(t)
    \/ \E c \in ConvIds : ChildExit(c)
    \/ \E c \in ConvIds, w \in {"cur", "old"} : collector_exit(c, w)
    \/ tick_window

SpecHealthConc == HealthConcInit /\ [][NextHealthConc]_vars

\* One converter and its output threads: start and stop are called on it
\* while the child writes lines, exits, and the clock advances.
CollectCall(t) ==
    /\ calls' = calls
    /\ (\E m \in 0..MaxRetries : sup_start(t, m)) \/ sup_stop(t)

NextCollect ==
    \/ Serial /\ CollectCall(Main)
    \/ \E t \in Threads : StartStep(t) \/ StopStep(t) \/ sup_return(t) \/ Return(t)
    \/ Background
    \/ \E c \in ConvIds, line \in Lines : ChildWrites(c, line)
    \/ tick_window

SpecCollect == SupInit /\ [][NextCollect]_vars

\* Every output thread is scheduled: one whose loop test fails, or whose read
\* raises, again and again does end.
CollectorsFair ==
    \A c \in ConvIds, w \in {"cur", "old"} :
        SF_vars(collector_exit(c, w) \/ collector_raise(c, w))

\* A caller inside start or stop goes on to its return.
CallersFair ==
    \A t \in Threads :
        WF_vars(StartStep(t) \/ StopStep(t) \/ sup_return(t) \/ Return(t))

SpecCollectFair == SpecCollect /\ CollectorsFair /\ CallersFair

\* get_health_status as a function of the fields it reads: one converter
\* whose fields, child and cache are drawn from the values around the two
\* thresholds; get_health_status and clear_error are called on it while the
\* child may exit and the clock advance.
OutputTimes == {0, StartTime - StaleThreshold - 1, StartTime - StaleThreshold, StartTime}
CheckTimes == {0, StartTime - CacheWindow, StartTime - CacheWindow + 1}
CachedVerdicts == {NotRunning, ErrorVerdict(ErrNoProcess), NoOutput, Healthy}

HealthInit ==
    \E p \in {None, "Popen"}, ch \in {"none", "alive", "exited"},
       e \in {"", ErrNoProcess}, o \in OutputTimes, k \in CheckTimes,
       v \in CachedVerdicts \cup {[none |-> TRUE]} :
        /\ p = None => ch # "alive"
        /\ p # None => ch # "none"
        /\ k = 0 => v = [none |-> TRUE]
        /\ streams = [n \in Names |-> IF n = "s1" THEN Sup ELSE NoConv]
        /\ store = [n \in Names |-> NoRec]
        /\ conv = [c \in ConvIds |->
                      IF c = Sup
                      THEN [NewConverter("rtmp://x", 8554, "s1") EXCEPT
                                !.process = p, !.last_error = e,
                                !.last_output_time = o,
                                !.last_health_check_time = k,
                                !.cached_health_status = v,
                                !.log_buffer = "text"]
                      ELSE FreeConverter]
        /\ child = [c \in ConvIds |-> IF c = Sup THEN ch ELSE "none"]
        /\ collectors = [c \in ConvIds |-> NoCollectors]
        /\ now = StartTime
        /\ loaded = TRUE
        /\ pc = [t \in Threads |-> "idle"]
        /\ loc = [t \in Threads |-> IdleLoc]
        /\ removed = {}
        /\ calls = 0
        /\ output = [c \in ConvIds |-> Silent]

HealthCall(t) == calls' = calls /\ (sup_health(t) \/ sup_clear_error(t))

NextHealth ==
    \/ Serial /\ HealthCall(Main)
    \/ \E t \in Threads : Return(t)
    \/ \E c \in ConvIds : ChildExit(c)
    \/ tick_window

SpecHealth == HealthInit /\ [][NextHealth]_vars

\* ------------------------------------------------------------- properties

\* The positions of a caller inside StreamConverter.start.
InStart == {"start", "spawn", "grace", "start_ret"}

\* C1 (SpecConc): of two add calls on one name that run at the same time, at
\* most one gets past the uniqueness check, a successful start and the
\* insertion (from where add only saves and returns True), so at most one
\* child is spawned and kept for the name.
C1_AddsExclude ==
    \A t, u \in Threads :
        (t # u /\ loc[t].op = "add" /\ loc[u].op = "add" /\ loc[t].name = loc[u].name)
            => ~(pc[t] = "add_save" /\ pc[u] = "add_save")

\* C2 (Spec): when add(name, url, port) has returned True, the map contains
\* name and the store holds for name a record with that url and that port.
C2_AddPersists ==
    \A t \in Threads :
        (pc[t] = "done" /\ loc[t].op = "add" /\ loc[t].ret = "True")
            => /\ streams[loc[t].name] # NoConv
               /\ store[loc[t].name] = [rtmp_url |-> loc[t].url, rtsp_port |-> loc[t].port]

\* C3 (Spec): an add whose start returned False returns False, and no step
\* from the beginning of the call to that return changes the map or the
\* store: they are what they were before the call.
C3_FailedAddChangesNothing ==
    [][
        \A t \in Threads :
            /\ (/\ loc'[t].op = "add"
                /\ \/ pc'[t] \in {"start", "spawn", "grace"}
                   \/ pc'[t] = "start_ret" /\ ~loc'[t].sret)
                  => (streams' = streams /\ store' = store)
            /\ (/\ pc[t] = "start_ret" /\ loc[t].op = "add" /\ ~loc[t].sret
                /\ pc'[t] # pc[t])
                  => /\ pc'[t] = "done" /\ loc'[t].ret = "False"
                     /\ streams' = streams /\ store' = store
    ]_vars

C3_Witness ==
    \E t \in Threads :
        /\ pc[t] = "done" /\ loc[t].op = "add" /\ loc[t].ret = "False"
        /\ streams[loc[t].name] = NoConv

\* C4 (Spec): add with a name that is in the map returns False in its first
\* step: no converter is constructed, no child is spawned, and the map, the
\* converters and the store stay as they are.
C4_DuplicateAddRejected ==
    [][
        \A t \in Threads :
            (pc[t] = "idle" /\ loc'[t].op = "add" /\ streams[loc'[t].name] # NoConv)
                => /\ pc'[t] = "done" /\ loc'[t].ret = "False"
                   /\ streams' = streams /\ store' = store
                   /\ conv' = conv /\ child' = child /\ collectors' = collectors
    ]_vars

C4_Witness ==
    \E t \in Threads :
        /\ pc[t] = "done" /\ loc[t].op = "add" /\ loc[t].ret = "False"
        /\ streams[loc[t].name] # NoConv

C7_AbsentNameRejected ==
    [][
        \A t \in Threads :
            (/\ pc[t] = "idle"
             /\ loc'[t].op \in {"remove", "get", "clear_error", "logs"}
             /\ streams[loc'[t].name] = NoConv)
                => /\ pc'[t] = "done"
                   /\ loc'[t].ret = IF loc'[t].op \in {"remove", "clear_error"}
                                    THEN "False" ELSE "None"
                   /\ streams' = streams /\ store' = store
                   /\ conv' = conv /\ child' = child /\ collectors' = collectors
    ]_vars

C7_Witness ==
    \E t \in Threads :
        /\ pc[t] = "done" /\ loc[t].op = "clear_error" /\ loc[t].ret = "False"
        /\ streams[loc[t].name] = NoConv

\* C8 (SpecSup): start on a converter whose handle is set and whose child is
\* alive returns True in its first step: no spawn attempt, the child and the
\* output threads as they were, and process, last_error, last_output_time and
\* the health cache unchanged.
C8_RunningStartIsNoOp ==
    [][
        \A t \in Threads :
            (/\ pc[t] = "start" /\ pc'[t] # "start"
             /\ conv[loc[t].cv].process # None /\ child[loc[t].cv] = "alive")
                => LET c == loc[t].cv IN
                   /\ pc'[t] = "start_ret" /\ loc'[t].sret /\ loc'[t].spawns = 0
                   /\ child' = child /\ collectors' = collectors
                   /\ conv'[c].process = conv[c].process
                   /\ conv'[c].last_error = conv[c].last_error
                   /\ conv'[c].last_output_time = conv[c].last_output_time
                   /\ conv'[c].last_health_check_time = conv[c].last_health_check_time
                   /\ conv'[c].cached_health_status = conv[c].cached_health_status
    ]_vars

C8_Witness ==
    \E t \in Threads :
        /\ pc[t] = "start_ret" /\ loc[t].op = "start"
        /\ loc[t].sret /\ loc[t].spawns = 0 /\ loc[t].max_retries > 0

\* C9 (SpecSup): a call of start makes at most max_retries spawn attempts,
\* whatever max_retries is; a call that did not find the child already running
\* and whose attempts all raised a retried error returns False after exactly
\* max_retries attempts.
C9_BoundedAttempts ==
    \A t \in Threads :
        pc[t] \in InStart =>
            /\ loc[t].spawns <= loc[t].max_retries
            /\ (/\ pc[t] = "start_ret" /\ loc[t].transient
                /\ (loc[t].spawns > 0 \/ ~loc[t].sret))
                  => (loc[t].spawns = loc[t].max_retries /\ ~loc[t].sret)

C9_Witness ==
    \E t \in Threads :
        /\ pc[t] = "start_ret" /\ loc[t].transient /\ ~loc[t].sret
        /\ loc[t].max_retries = MaxRetries /\ loc[t].spawns = MaxRetries

\* C10 (SpecSup): a spawn attempt that raises FileNotFoundError or
\* PermissionError makes start return False in that step, with no further
\* attempt even when attempts remain; an attempt that raises another error is
\* followed by the next attempt while attempts remain.
C10_FatalAbortsTransientRetries ==
    [][
        \A t \in Threads : \A o \in SpawnOutcomes :
            start_spawn(t, o) =>
                /\ o \in {"FileNotFoundError", "PermissionError"}
                      => (pc'[t] = "start_ret" /\ ~loc'[t].sret)
                /\ (o \in {"OSError", "Exception"} /\ loc[t].attempt + 1 < loc[t].max_retries)
                      => (pc'[t] = "spawn" /\ loc'[t].attempt = loc[t].attempt + 1)
    ]_vars

C10_Witness ==
    \E t \in Threads :
        /\ pc[t] = "start_ret" /\ ~loc[t].sret /\ ~loc[t].transient
        /\ loc[t].spawns = 1 /\ loc[t].max_retries > 1

\* The supervision fields of converter c in the record r: everything but the
\* log text.
Supervision(r) ==
    <<r.process, r.log_thread, r.stop_log_thread, r.last_error, r.last_output_time,
      r.last_health_check_time, r.cached_health_status>>

\* The positions of a caller inside StreamConverter.stop.
InStop == {"stop", "join", "terminate", "wait", "wait_kill", "stop_ret"}

\* C11 as stated (SpecSup): stop on a converter whose child is not alive
\* returns True in its first step and changes no supervision field, no child
\* and no output thread.
C11_StopWithoutChildIsNoOp ==
    [][
        \A t \in Threads :
            (pc[t] = "stop" /\ pc'[t] # "stop" /\ child[loc[t].cv] # "alive")
                => /\ pc'[t] = "stop_ret" /\ loc'[t].sret
                   /\ child' = child /\ collectors' = collectors
                   /\ Supervision(conv'[loc[t].cv]) = Supervision(conv[loc[t].cv])
    ]_vars

\* C11 amended (SpecSup): stop on a converter that holds no handle
\* (self.process is None) returns True in its first step and changes no
\* supervision field, no child and no output thread.
C11_StopWithoutHandleIsNoOp ==
    [][
        \A t \in Threads :
            (pc[t] = "stop" /\ pc'[t] # "stop" /\ conv[loc[t].cv].process = None)
                => /\ pc'[t] = "stop_ret" /\ loc'[t].sret
                   /\ child' = child /\ collectors' = collectors
                   /\ Supervision(conv'[loc[t].cv]) = Supervision(conv[loc[t].cv])
    ]_vars

C11_Witness ==
    \E t \in Threads :
        /\ pc[t] = "stop_ret" /\ loc[t].op = "stop" /\ loc[t].sret
        /\ conv[loc[t].cv].process = None /\ child[loc[t].cv] = "none"

\* C12 (SpecSup): the step in which stop returns False finds the child still
\* alive after the kill and leaves the handle held; the step in which stop
\* returns True leaves a child that is not alive and no handle.
C12_StopResult ==
    [][
        \A t \in Threads :
            (pc[t] \in InStop /\ pc[t] # "stop_ret" /\ pc'[t] = "stop_ret")
                => LET c == loc[t].cv IN
                   IF loc'[t].sret
                   THEN child'[c] # "alive" /\ conv'[c].process = None
                   ELSE /\ child'[c] = "alive" /\ pc[t] = "wait_kill"
                        /\ conv'[c].process # None
    ]_vars

C12_Witness ==
    \E t \in Threads :
        /\ pc[t] = "stop_ret" /\ loc[t].op = "stop" /\ ~loc[t].sret
        /\ conv[loc[t].cv].process # None

\* The verdict the priority order gives for converter Sup in the current
\* state: not running, else the recorded error, else stale output, else healthy.
PriorityVerdict ==
    IF conv[Sup].process = None \/ child[Sup] # "alive" THEN NotRunning
    ELSE IF conv[Sup].last_error # "" THEN ErrorVerdict(conv[Sup].last_error)
    ELSE IF conv[Sup].last_output_time > 0
            /\ now - conv[Sup].last_output_time > StaleThreshold THEN NoOutput
    ELSE Healthy

\* get_health_status answers the call from its cache: a verdict is cached and
\* less than the cache window has passed since it was computed.
AnswersFromCache ==
    /\ conv[Sup].cached_health_status # [none |-> TRUE]
    /\ now - conv[Sup].last_health_check_time < CacheWindow

\* C13 (SpecHealth): every verdict get_health_status recomputes follows the
\* priority order: no live child gives "FFmpeg process is not running"
\* whatever the error and the output time; else a recorded error gives
\* "FFmpeg error: <text>" whatever the output time; else output older than
\* 30 s gives "No output from FFmpeg ..."; else healthy.
C13_VerdictPriority ==
    [][
        \A t \in Threads :
            (pc[t] = "idle" /\ loc'[t].op = "health" /\ ~AnswersFromCache)
                => loc'[t].val = PriorityVerdict
    ]_vars

C13_Witness ==
    \E t \in Threads :
        /\ pc[t] = "done" /\ loc[t].op = "health"
        /\ loc[t].val = ErrorVerdict(ErrNoProcess)
        /\ conv[Sup].last_health_check_time = now
        /\ conv[Sup].last_output_time > 0
        /\ now - conv[Sup].last_output_time > StaleThreshold

\* C14 (SpecHealth): get_health_status called less than 5 s after the last
\* recomputation, with the cached verdict not cleared since, returns that
\* verdict and changes nothing, whatever the child, the error and the output
\* time are now; called 5 s or more after it, or with no cached verdict, it
\* recomputes from the current state and caches the verdict with the
\* current time.
C14_CacheWindow ==
    [][
        \A t \in Threads :
            (pc[t] = "idle" /\ loc'[t].op = "health")
                => IF AnswersFromCache
                   THEN /\ loc'[t].val = conv[Sup].cached_health_status
                        /\ conv' = conv
                   ELSE /\ loc'[t].val = PriorityVerdict
                        /\ conv'[Sup].cached_health_status = PriorityVerdict
                        /\ conv'[Sup].last_health_check_time = now
    ]_vars

C14_Witness ==
    \E t \in Threads :
        /\ pc[t] = "done" /\ loc[t].op = "health"
        /\ loc[t].val = Healthy
        /\ conv[Sup].process = None
        /\ conv[Sup].last_health_check_time = StartTime - CacheWindow + 1

\* C16 (SpecHealth): when clear_error has returned, the verdict
\* get_health_status returns is healthy if the child is alive and the output
\* is not stale, also inside the cache window of an earlier verdict.
C16_ClearErrorThenHealthy ==
    \A t \in Threads :
        (/\ pc[t] = "done" /\ loc[t].op = "clear"
         /\ conv[Sup].process # None /\ child[Sup] = "alive"
         /\ ~(/\ conv[Sup].last_output_time > 0
              /\ now - conv[Sup].last_output_time > StaleThreshold))
            => HealthOf(conv, Sup, now) = Healthy

C16_Witness ==
    \E t \in Threads :
        /\ pc[t] = "done" /\ loc[t].op = "clear"
        /\ conv[Sup].process # None /\ child[Sup] = "alive"
        /\ conv[Sup].last_health_check_time > 0
        /\ now - conv[Sup].last_health_check_time < CacheWindow

\* C15 (SpecSup): for a running converter with no recorded error whose child
\* has written output, the verdict get_health_status computes is "no output"
\* once the child's last line is older than the staleness threshold, and
\* healthy while it is not.
C15_StaleOutputUnhealthy ==
    (/\ conv[Sup].process # None /\ child[Sup] = "alive"
     /\ conv[Sup].last_error = ""
     /\ output[Sup].at > 0)
        => Recompute(conv, Sup, now) =
               IF now - output[Sup].at > StaleThreshold THEN NoOutput ELSE Healthy

\* C17 (SpecSup): clear_error empties the recorded error and drops the cached
\* verdict and changes nothing else: every other field of the converter (the
\* process handle, last_output_time, the time of the last health check), the
\* child, the collector, the other converters, the map and the store are as
\* they were.
C17_ClearErrorFrame ==
    [][\A t \in Threads :
          (pc[t] = "idle" /\ pc'[t] = "done" /\ loc'[t].op = "clear")
              => /\ conv'[Sup].last_error = ""
                 /\ conv'[Sup].cached_health_status = [none |-> TRUE]
                 /\ \A f \in DOMAIN conv[Sup] \ {"last_error", "cached_health_status"} :
                        conv'[Sup][f] = conv[Sup][f]
                 /\ \A c \in ConvIds \ {Sup} : conv'[c] = conv[c]
                 /\ child' = child
                 /\ collectors' = collectors
                 /\ output' = output
                 /\ streams' = streams
                 /\ store' = store]_vars

C17_Witness ==
    \E t \in Threads :
        /\ pc[t] = "done" /\ loc[t].op = "clear"
        /\ conv[Sup].process # None /\ child[Sup] = "alive"
        /\ collectors[Sup].cur
        /\ conv[Sup].last_health_check_time > 0
        /\ conv[Sup].cached_health_status = [none |-> TRUE]

\* A caller is inside load_streams_from_db.
InLoad(t) == loc[t].op = "load" /\ pc[t] # "done"

\* C18 (Spec): load_streams_from_db constructs and starts a converter only
\* for a stored name that is not in the map; while it runs, an entry of the
\* map is never replaced or removed, and a name enters the map exactly when
\* its start has returned True, which is also exactly when the count goes up
\* by one; the count starts at 0 and is what the call returns.  When the map
\* was empty before (the load at startup), the result is the number of names
\* in the map.
C18_LoadStartsOnlyAbsent ==
    [][\A t \in Threads :
          /\ (pc[t] = "idle" /\ loc'[t].op = "load") => loc'[t].count = 0
          /\ InLoad(t) =>
              /\ (pc[t] = "load_next" /\ pc'[t] = "start")
                     => /\ streams[loc'[t].name] = NoConv
                        /\ store[loc'[t].name] # NoRec
                        /\ conv'[loc'[t].cv].stream_name = loc'[t].name
                        /\ loc'[t].cv \notin {streams[n] : n \in Names}
              /\ \A n \in Names : streams[n] # NoConv => streams'[n] = streams[n]
              /\ (pc[t] = "start_ret" /\ pc'[t] # "start_ret")
                     => IF loc[t].sret
                        THEN /\ streams' = [streams EXCEPT ![loc[t].name] = loc[t].cv]
                             /\ loc'[t].count = loc[t].count + 1
                        ELSE /\ streams' = streams
                             /\ loc'[t].count = loc[t].count
              /\ pc[t] # "start_ret"
                     => /\ streams' = streams
                        /\ pc'[t] # "done" => loc'[t].count = loc[t].count
              /\ pc'[t] = "done"
                     => /\ loc'[t].ret = "Count"
                        /\ loc'[t].val = loc[t].count
                        /\ calls = 1 =>
                               loc'[t].val = Cardinality({n \in Names : streams'[n] # NoConv})
      ]_vars

C18_Witness ==
    \E t \in Threads :
        /\ pc[t] = "done" /\ loc[t].op = "load"
        /\ calls = 2
        /\ loc[t].val = 1
        /\ \A n \in Names : streams[n] # NoConv /\ store[n] # NoRec

\* C19 (Spec): when converter.start() returns False inside
\* load_streams_from_db, the loop goes on to the next stored row: the map and
\* the count are as before, the rows still to do are kept, and the call
\* returns, with the count as its result, only when no row is left.
C19_FailedStartDoesNotAbortLoad ==
    [][\A t \in Threads :
          InLoad(t) =>
              /\ (pc[t] = "start_ret" /\ ~loc[t].sret /\ pc'[t] # "start_ret")
                     => /\ pc'[t] = "load_next"
                        /\ streams' = streams
                        /\ streams'[loc[t].name] = NoConv
                        /\ loc'[t].count = loc[t].count
                        /\ loc'[t].todo = loc[t].todo
              /\ pc'[t] = "done"
                     => /\ pc[t] = "load_next"
                        /\ loc[t].todo = {}
                        /\ loc'[t].ret = "Count"
                        /\ loc'[t].val = loc[t].count
      ]_vars

\* The second stored row has been started, and started well, after the start
\* of the first one failed.
C19_Witness ==
    \E t \in Threads :
        /\ pc[t] = "start_ret" /\ loc[t].op = "load" /\ loc[t].sret
        /\ calls = 1
        /\ loc[t].todo = {} /\ loc[t].count = 0
        /\ \A n \in Names : store[n] # NoRec /\ streams[n] = NoConv

\* C20 (Spec): stop_all_streams takes every entry the map holds when it is
\* called, calls stop() on each of them whatever the earlier stops returned,
\* and returns only when none is left; on return the map is empty, and the
\* result is True exactly when every stop() returned True.
C20_StopAllSweepsAndClears ==
    [][\A t \in Threads :
          /\ (pc[t] = "idle" /\ loc'[t].op = "stop_all")
                 => /\ loc'[t].items =
                           {<<n, streams[n]>> : n \in {m \in Names : streams[m] # NoConv}}
                    /\ loc'[t].success
          /\ (loc[t].op = "stop_all" /\ pc[t] # "done") =>
              /\ (pc[t] = "stop_ret" /\ pc'[t] # "stop_ret")
                     => /\ pc'[t] = "stop_all_next"
                        /\ loc'[t].items = loc[t].items
                        /\ loc'[t].success = (loc[t].success /\ loc[t].sret)
              /\ (pc[t] = "stop_all_next" /\ pc'[t] # "stop_all_next" /\ loc[t].items # {})
                     => /\ pc'[t] = "stop"
                        /\ \E i \in loc[t].items :
                               /\ loc'[t].items = loc[t].items \ {i}
                               /\ loc'[t].cv = i[2]
                        /\ loc'[t].success = loc[t].success
              /\ (pc[t] \notin {"stop_ret", "stop_all_next"})
                     => /\ loc'[t].success = loc[t].success
                        /\ loc'[t].items = loc[t].items
              /\ pc'[t] = "done"
                     => /\ pc[t] = "stop_all_next"
                        /\ loc[t].items = {}
                        /\ \A n \in Names : streams'[n] = NoConv
                        /\ loc'[t].ret = IF loc[t].success THEN "True" ELSE "False"
      ]_vars

\* stop_all_streams has returned False with the map empty; the child whose
\* stop failed is still alive.
C20_Witness ==
    \E t \in Threads :
        /\ pc[t] = "done" /\ loc[t].op = "stop_all"
        /\ loc[t].ret = "False"
        /\ \A n \in Names : streams[n] = NoConv
        /\ \E c \in ConvIds : child[c] = "alive"

\* A step of caller t inside get_stream or get_all_streams.
ReadStep(t) ==
    /\ pc'[t] # pc[t]
    /\ loc[t].op \in {"get", "list"} \/ (pc[t] = "idle" /\ loc'[t].op \in {"get", "list"})

\* C21 as stated (Spec): no step of get_stream or get_all_streams changes the
\* map, the store or any field of any converter, the cached verdict and the
\* time of the last health check included.
C21_ReadsChangeNothing ==
    [][\A t \in Threads :
          ReadStep(t) => streams' = streams /\ store' = store /\ conv' = conv
      ]_vars

\* C21 (Spec): a step of get_stream or get_all_streams leaves the map, the
\* store, the children, the output threads and every field of every
\* converter as they were, except the cached verdict and the time of the last
\* health check; these two change only together, only when the cache is
\* empty or at least a cache window old, and then the time becomes the
\* current time and a verdict is cached.
C21_ReadsChangeOnlyCache ==
    [][\A t \in Threads :
          ReadStep(t) =>
              /\ streams' = streams
              /\ store' = store
              /\ child' = child
              /\ collectors' = collectors
              /\ \A c \in ConvIds :
                    /\ \A f \in DOMAIN conv[c] \
                                  {"cached_health_status", "last_health_check_time"} :
                           conv'[c][f] = conv[c][f]
                    /\ (\/ conv'[c].cached_health_status # conv[c].cached_health_status
                        \/ conv'[c].last_health_check_time # conv[c].last_health_check_time)
                           => /\ \/ conv[c].cached_health_status = [none |-> TRUE]
                                 \/ now - conv[c].last_health_check_time >= CacheWindow
                              /\ conv'[c].last_health_check_time = now
                              /\ conv'[c].cached_health_status # [none |-> TRUE]
      ]_vars

\* get_stream has answered for a registered stream whose child has exited,
\* with a verdict computed and cached by this call.
C21_Witness ==
    \E t \in Threads :
        /\ pc[t] = "done" /\ loc[t].op = "get" /\ loc[t].ret = "Record"
        /\ streams[loc[t].name] # NoConv
        /\ child[streams[loc[t].name]] = "exited"
        /\ conv[streams[loc[t].name]].process # None
        /\ conv[streams[loc[t].name]].last_health_check_time = now
        /\ conv[streams[loc[t].name]].cached_health_status = NotRunning

C26_LogFilePreferred ==
    \A t \in Threads :
        (/\ pc[t] = "done" /\ loc[t].op = "logs" /\ loc[t].ret = "Text"
         /\ loc[t].file = "file")
            => loc[t].val = <<"file">>

\* C30 (Spec): while a name is mapped to a converter whose child has exited,
\* no step makes that child run again; the entry leaves the map only in a
\* step of remove_stream or stop_all_streams and the name's row, once
\* written, changes only in a step of remove_stream; and a get_stream of the name that does not
\* answer from the cache returns status False with the reason "FFmpeg process
\* is not running".
C30_ExitedChildStaysDown ==
    [][\A n \in Names :
          (streams[n] # NoConv /\ child[streams[n]] = "exited") =>
              /\ child'[streams[n]] # "alive"
              /\ streams'[n] # streams[n]
                     => /\ streams'[n] = NoConv
                        /\ \E t \in Threads : loc[t].op \in {"remove", "stop_all"}
              /\ (store[n] # NoRec /\ store'[n] # store[n])
                     => \E t \in Threads : loc[t].op = "remove"
              /\ \A t \in Threads :
                    (/\ pc[t] = "idle" /\ pc'[t] = "done"
                     /\ loc'[t].op = "get" /\ loc'[t].name = n
                     /\ \/ conv[streams[n]].cached_health_status = [none |-> TRUE]
                        \/ now - conv[streams[n]].last_health_check_time >= CacheWindow)
                        => /\ loc'[t].ret = "Record"
                           /\ loc'[t].val.status = FALSE
                           /\ loc'[t].val.status_reason =
                                  <<"FFmpeg process is not running", "">>
      ]_vars

\* get_stream has reported "not running" for a stream whose child exited on
\* its own: the handle is still held, the entry and the row are still there.
C30_Witness ==
    \E t \in Threads :
        /\ pc[t] = "done" /\ loc[t].op = "get" /\ loc[t].ret = "Record"
        /\ loc[t].val.status_reason = <<"FFmpeg process is not running", "">>
        /\ streams[loc[t].name] # NoConv
        /\ child[streams[loc[t].name]] = "exited"
        /\ conv[streams[loc[t].name]].process # None
        /\ store[loc[t].name] # NoRec
        /\ now > StartTime

\* What the registry's operations return: a boolean, a dictionary or None,
\* a list, a count, the log text.
RegistryResults == {"True", "False", "Record", "None", "List", "Count", "Text"}

\* C23 (SpecReg): every registry call that is over has ended with one of the
\* results the operations return, never with an exception of the map
\* (KeyError of del self.streams[...], RuntimeError of the iteration).
C23_NoRawFault ==
    \A t \in Threads : pc[t] = "done" => loc[t].ret \in RegistryResults

\* The positions of a caller that is past the entry test of start or stop
\* and has not returned from it.
InLifecycle == {"spawn", "grace", "join", "terminate", "wait", "wait_kill"}

\* C25 (SpecReg): no two callers are inside start or stop of the same
\* converter object at the same time.
C25_LifecycleSerialized ==
    \A t, u \in Threads :
        (t # u /\ pc[t] \in InLifecycle /\ pc[u] \in InLifecycle)
            => loc[t].cv # loc[u].cv

\* C24 (SpecHealthConc): a get_health_status that runs while clear_error is
\* called never returns the error verdict with an empty error text, and the
\* cache never holds an error verdict while no error is recorded.
C24_ConsistentVerdict ==
    /\ \A t \in Threads :
           (pc[t] = "done" /\ loc[t].op = "health") => loc[t].val # ErrorVerdict("")
    /\ conv[Sup].cached_health_status # [none |-> TRUE]
           => (conv[Sup].cached_health_status.reason = "FFmpeg error: "
                   => conv[Sup].last_error # "")

\* The converter of HealthConcInit: running again after a stop, the
\* AttributeError of the earlier output thread still recorded.
C24_InitReached ==
    /\ Serial
    /\ conv[Sup] = [RunningConverter("rtmp://x", 8554, "s1") EXCEPT
                        !.last_error = ErrNoProcess]
    /\ child[Sup] = "alive"
    /\ collectors[Sup] = [cur |-> TRUE, old |-> 0]

\* The output thread of the running child of converter c is in its loop and
\* has had time to read what the child wrote: the line was written before
\* the current time.
CollectorHadTime(c) ==
    /\ conv[c].process # None /\ child[c] = "alive"
    /\ collectors[c].cur /\ ~conv[c].stop_log_thread
    /\ output[c].at > 0 /\ now > output[c].at

\* C27 (SpecCollect): once the output thread has had time to read the lines
\* of its running child, the recorded error is the last line with an error
\* keyword the child wrote.
C27_ErrorLineRecorded ==
    \A c \in ConvIds :
        (CollectorHadTime(c) /\ output[c].err # "")
            => conv[c].last_error = output[c].err

\* C28 (SpecCollect): once the output thread has had time to read the lines
\* of its running child, last_output_time is not earlier than the child's
\* last line.
C28_ActivityTimeFollowsOutput ==
    \A c \in ConvIds :
        CollectorHadTime(c) => conv[c].last_output_time >= output[c].at

\* C29 (SpecCollectFair): an output thread of an earlier child (one that has
\* exited or been stopped, so that another was spawned) eventually ends.
C29_CollectorTerminates ==
    \A c \in ConvIds : (collectors[c].old > 0) ~> (collectors[c].old = 0)

\* C31 (SpecSup): a call of stop on a converter that holds a handle goes
\* through its steps in one order: the stop flag of a live output thread is
\* set first and the thread joined, then terminate, then the wait of five
\* seconds; the kill follows that wait and only when the child is still
\* alive at its end, then the wait of two seconds; the handle is cleared in
\* the step that returns, and in no other step of the call.
C31_StopOrder ==
    [][
        \A t \in Threads :
            (pc[t] \in InStop /\ pc'[t] # pc[t] /\ conv[loc[t].cv].process # None)
                => LET c == loc[t].cv IN
                   /\ pc[t] = "stop" =>
                         /\ pc'[t] = IF conv[c].log_thread /\ collectors[c].cur
                                     THEN "join" ELSE "terminate"
                         /\ pc'[t] = "join" => conv'[c].stop_log_thread
                   /\ pc[t] = "join" => pc'[t] = "terminate"
                   /\ pc[t] = "terminate" => pc'[t] = "wait"
                   /\ pc[t] = "wait" =>
                         pc'[t] = IF child[c] = "alive" THEN "wait_kill" ELSE "stop_ret"
                   /\ pc[t] = "wait_kill" => pc'[t] = "stop_ret"
                   /\ conv'[c].stop_log_thread # conv[c].stop_log_thread
                         => pc[t] = "stop"
                   /\ conv'[c].process # conv[c].process
                         => /\ conv'[c].process = None
                            /\ pc[t] \in {"wait", "wait_kill"} /\ pc'[t] = "stop_ret"
    ]_vars

\* The kill has been sent: the output thread was signalled, terminate was
\* called and the child outlived the first wait.
C31_Witness ==
    \E t \in Threads :
        /\ pc[t] = "wait_kill" /\ loc[t].op = "stop"
        /\ conv[loc[t].cv].stop_log_thread /\ ~conv[loc[t].cv].log_thread
        /\ child[loc[t].cv] = "alive" /\ conv[loc[t].cv].process # None

\* C32 (SpecSup): the step in which start returns True either is its first
\* step and finds the handle set and the child alive, or ends the two seconds
\* after a spawn and finds the spawned child alive; the end of those two
\* seconds with the child exited never returns True, and with the child alive
\* it returns True at once, without another attempt.
C32_SuccessMeansAliveChild ==
    [][
        \A t \in Threads :
            LET c == loc[t].cv IN
            /\ (pc[t] \in InStart /\ pc[t] # "start_ret"
                 /\ pc'[t] = "start_ret" /\ loc'[t].sret)
                    => \/ /\ pc[t] = "start" /\ loc[t].spawns = 0
                          /\ conv[c].process # None /\ child[c] = "alive"
                       \/ /\ pc[t] = "grace" /\ loc[t].spawns > 0
                          /\ conv[c].process # None /\ child[c] = "alive"
            /\ (pc[t] = "grace" /\ pc'[t] # "grace") =>
                   IF child[c] = "alive"
                   THEN /\ pc'[t] = "start_ret" /\ loc'[t].sret
                        /\ loc'[t].spawns = loc[t].spawns
                   ELSE /\ ~(pc'[t] = "start_ret" /\ loc'[t].sret)
                        /\ pc'[t] = IF loc[t].attempt + 1 < loc[t].max_retries
                                    THEN "spawn" ELSE "start_ret"
    ]_vars

\* start has returned True from its second attempt: the first did not give
\* a surviving child, the child of the second is alive.
C32_Witness ==
    \E t \in Threads :
        /\ pc[t] = "start_ret" /\ loc[t].op = "start" /\ loc[t].sret
        /\ loc[t].spawns = 2 /\ loc[t].max_retries = MaxRetries
        /\ child[loc[t].cv] = "alive"

\* C33 (SpecCollectFair): a caller inside start reaches the return of start,
\* whatever max_retries is, whatever the spawns raise and whenever the
\* children exit; until then no step takes it out of start; and a start with
\* max_retries of zero on a converter that is not running returns False in
\* its first step, with no spawn.
C33_StartReturnsEventually ==
    /\ \A t \in Threads :
           (pc[t] \in {"start", "spawn", "grace"}) ~> (pc[t] = "start_ret")
    /\ [][
           \A t \in Threads :
               /\ pc[t] \in {"start", "spawn", "grace"} => pc'[t] \in InStart
               /\ pc[t] \in {"spawn", "grace"} =>
                      /\ loc'[t].max_retries = loc[t].max_retries
                      /\ loc'[t].attempt >= loc[t].attempt
               /\ (/\ pc[t] = "start" /\ pc'[t] # "start"
                   /\ loc[t].max_retries = 0
                   /\ ~(conv[loc[t].cv].process # None /\ child[loc[t].cv] = "alive"))
                      => /\ pc'[t] = "start_ret" /\ ~loc'[t].sret
                         /\ loc'[t].spawns = 0 /\ child' = child
       ]_vars

\* start has returned False after its last attempt, and at least one of its
\* attempts spawned a child that then exited.
C33_Witness ==
    \E t \in Threads :
        /\ pc[t] = "start_ret" /\ loc[t].op = "start" /\ ~loc[t].sret
        /\ loc[t].spawns = MaxRetries /\ ~loc[t].transient
        /\ child[loc[t].cv] = "exited"

\* The child of converter c runs, and neither the map nor a call in progress
\* holds the converter.
Untracked(c) ==
    /\ child[c] = "alive"
    /\ \A n \in Names : streams[n] # c
    /\ \A t \in Threads : c \notin HeldBy(t)

\* C34 as stated (Spec): whenever no registry call is in progress, every
\* running child belongs to a converter that is in the map.
C34_NoUntrackedChild ==
    Serial => \A c \in ConvIds : child[c] = "alive" => \E n \in Names : streams[n] = c

\* C34 amended (Spec): a running child comes to be outside the map and
\* outside every call in progress in one step only: the self.streams.clear()
\* of a stop_all_streams in which a converter.stop() returned False.  The
\* converter was in the map until that step, still holds its handle, and the
\* call returns False.
C34_UntrackedOnlyAfterFailedStopAll ==
    [][
        \A c \in ConvIds :
            (Untracked(c)' /\ ~Untracked(c))
                => /\ \E n \in Names : streams[n] = c
                   /\ conv'[c].process # None
                   /\ \E t \in Threads :
                          /\ pc[t] = "stop_all_next" /\ loc[t].items = {}
                          /\ ~loc[t].success
                          /\ pc'[t] = "done" /\ loc'[t].ret = "False"
    ]_vars

\* stop_all_streams has returned False and cleared the map; the child that
\* outlived its kill runs on, and no entry leads to it.
C34_Witness ==
    \E t \in Threads : \E c \in ConvIds :
        /\ pc[t] = "done" /\ loc[t].op = "stop_all" /\ loc[t].ret = "False"
        /\ child[c] = "alive" /\ conv[c].process # None
        /\ \A n \in Names : streams[n] = NoConv

\* C35 (SpecCollect): at most one output thread of a converter is inside the
\* loop of _log_ffmpeg_output at any time: when the thread of a later child
\* runs, the threads of the earlier children have ended.
C35_OneCollector ==
    \A c \in ConvIds : ~(collectors[c].cur /\ collectors[c].old > 0)

\* C36 (Spec): in every record of a list get_all_streams has returned, status
\* is True exactly when status_reason is "Stream is running normally".
C36_ListFlagMatchesReason ==
    \A t \in Threads :
        (pc[t] = "done" /\ loc[t].op = "list" /\ loc[t].ret = "List")
            => \A r \in loc[t].val :
                   r.status <=> (r.status_reason = <<"Stream is running normally", "">>)

\* C37 (SpecSup): while last_error is not empty, a get_health_status that
\* does not answer from the cache returns status False, with the reason "not
\* running" or the recorded error; and last_error goes back to empty only in
\* a step of clear_error: no start, stop, output line, clock step or health
\* query empties it.
C37_ErrorSticky ==
    [][
        conv[Sup].last_error # "" =>
            /\ \A t \in Threads :
                   (/\ pc[t] = "idle" /\ pc'[t] = "done" /\ loc'[t].op = "health"
                    /\ \/ conv[Sup].cached_health_status = [none |-> TRUE]
                       \/ now - conv[Sup].last_health_check_time >= CacheWindow)
                      => /\ loc'[t].val.status = FALSE
                         /\ loc'[t].val \in
                                {Verdict(FALSE, "FFmpeg process is not running", ""),
                                 Verdict(FALSE, "FFmpeg error: ", conv[Sup].last_error)}
                         /\ conv'[Sup].last_error = conv[Sup].last_error
            /\ conv'[Sup].last_error = ""
                   => \E t \in Threads :
                          pc[t] = "idle" /\ pc'[t] = "done" /\ loc'[t].op = "clear"
    ]_vars

\* get_health_status has reported the recorded error of a converter that was
\* started again after the error was recorded, and time has passed since.
C37_Witness ==
    \E t \in Threads :
        /\ pc[t] = "done" /\ loc[t].op = "health"
        /\ loc[t].val = Verdict(FALSE, "FFmpeg error: ", conv[Sup].last_error)
        /\ conv[Sup].last_error # "" /\ child[Sup] = "alive"
        /\ now > StartTime

C39_StoreFrame ==
    [][
        store' # store =>
            \E t \in Threads :
                /\ pc'[t] = "done" /\ loc'[t].ret = "True"
                /\ \A n \in Names \ {loc[t].name} : store'[n] = store[n]
                /\ \/ /\ pc[t] = "add_save" /\ loc[t].op = "add"
                      /\ store[loc[t].name] = NoRec
                      /\ store'[loc[t].name] =
                             [rtmp_url |-> loc[t].url, rtsp_port |-> loc[t].port]
                   \/ /\ pc[t] = "remove_delete" /\ loc[t].op = "remove"
                      /\ store[loc[t].name] # NoRec
                      /\ store'[loc[t].name] = NoRec
    ]_vars

\* stop_all_streams has returned and emptied the map; the row of a stream the
\* startup had registered, and whose converter the sweep called stop on, is
\* still in the table.
C39_Witness ==
    \E t \in Threads : \E c \in ConvIds :
        /\ pc[t] = "done" /\ loc[t].op = "stop_all"
        /\ conv[c].alloc /\ conv[c].stop_log_thread
        /\ store[conv[c].stream_name] =
               [rtmp_url |-> conv[c].rtmp_url, rtsp_port |-> conv[c].rtsp_port]
        /\ \A m \in Names : streams[m] = NoConv

\* C40 (Spec): in the step in which start returns False the child of the
\* converter is not alive (none was spawned, or the one of the last attempt
\* has exited), and the add_stream that then returns False leaves the
\* converter it constructed without a running child and outside the map.
C40_FailedStartLeavesNoChild ==
    [][
        \A t \in Threads :
            /\ (pc[t] \in InStart /\ pc[t] # "start_ret"
                 /\ pc'[t] = "start_ret" /\ ~loc'[t].sret)
                    => child'[loc[t].cv] # "alive"
            /\ (pc[t] = "start_ret" /\ ~loc[t].sret /\ pc'[t] # "start_ret")
                    => /\ child[loc[t].cv] # "alive" /\ child'[loc[t].cv] # "alive"
                       /\ \A n \in Names : streams'[n] # loc[t].cv
                       /\ loc[t].op = "add" => (pc'[t] = "done" /\ loc'[t].ret = "False")
    ]_vars

\* The start of an add_stream has returned False after its last attempt; the
\* children it spawned have exited.
C40_Witness ==
    \E t \in Threads :
        /\ pc[t] = "start_ret" /\ loc[t].op = "add" /\ ~loc[t].sret
        /\ loc[t].spawns = DefaultMaxRetries /\ ~loc[t].transient
        /\ child[loc[t].cv] = "exited" /\ conv[loc[t].cv].process # None

====
